---- MODULE Spec2Model ----
(***************************************************************************)
(* State-machine model of platsat's index-keyed containers (intmap.rs:     *)
(* IntMap, IntMapBool, IntSet) and of the theory protocol's no-op          *)
(* implementation (theory.rs: EmptyTheory).                                 *)
(*                                                                         *)
(* A container is modelled by the contents of its backing vector; a call   *)
(* is one action.  `op` records the call that produced the current state   *)
(* and `status` whether that call returned or panicked.  A panic ends the  *)
(* run: no action is enabled once status = "panicked".                     *)
(***************************************************************************)
EXTENDS Integers, Sequences, FiniteSets

\* ---------------------------------------------------------------- bounds
\* Largest key index an IntMap call is made with.
MaxIndex == 2
\* Largest key index an IntMapBool or IntSet call is made with.
MaxBitIndex == 3
\* Largest value stored in an IntMap (values are 0..MaxVal).
MaxVal == 1

\* Most IntSet::insert calls made between two clears.
MaxInserts == 4
\* Most create_level calls of a run.
MaxCreate == 3
\* Largest sum of the pop_levels arguments of a run.
MaxPopped == 4
\* Largest literal; literals are 1..MaxLit.
MaxLit == 2
\* Largest raw clause reference passed to a notification hook.
MaxCRef == 1
\* Width of usize in bits on the modelled target.
UsizeBits == 16
\* Width in bits of the raw integer of a ClauseRef whose rendering is checked
\* (u32 in the source; narrowed so that every handle can be enumerated).
CRefBits == 6
\* Bits per storage block of a BitVec (u32 blocks in the source; narrowed so
\* that the modelled bitsets span several blocks).
BlockBits == 2
\* Most storage blocks an allocation holds beyond the ones in use.
MaxSpareBlocks == 1
\* Most bytes of a DIMACS input after its optional header.
MaxInputLen == 4
\* Width in bits of the parser's integers (i32 in the source; narrowed so
\* that a number of MaxInputLen digits can overflow).
IntBits == 8

VARIABLES
    map,        \* IntMap.map : Vec<V>
    reserved,   \* history: the keys ever passed to IntMap reserve/insert calls
    bits,       \* IntMapBool.map : BitVec, as its sequence of bits
    in_set,     \* IntSet.in_set : IntMapBool
    xs,         \* IntSet.xs : Vec<K>
    hist,       \* history: the keys passed to IntSet::insert since new/clear
    levels,     \* EmptyTheory.0 : usize
    created,    \* history: the number of create_level calls
    popped,     \* history: the sum of the pop_levels arguments
    acts,       \* the TheoryArg of the last check call, as that call left it
    input,      \* the bytes the DIMACS reader was created over
    pos,        \* the number of bytes the reader has consumed
    at,         \* where parse is: in its own loop, or in read_clause's
    result,     \* what parse returned: "none" while it is still running
    lits,       \* parse's clause buffer
    num_vars,   \* parse's local num_vars
    num_clauses,\* parse's local num_clauses
    build,      \* "debug" (debug assertions and overflow checks on) or "release"
    op,         \* the last call made, with its arguments
    status      \* "running", or "panicked" once a call has panicked

mapVars == <<map, reserved>>
boolVars == <<bits>>
setVars == <<in_set, xs, hist>>
thVars == <<levels, created, popped, acts>>
dimacsVars == <<input, pos, at, result, lits, num_vars, num_clauses>>
vars == <<map, reserved, bits, in_set, xs, hist, levels, created, popped, acts,
          input, pos, at, result, lits, num_vars, num_clauses, build, op,
          status>>

notMap == <<boolVars, setVars, thVars, dimacsVars, build>>
notBool == <<mapVars, setVars, thVars, dimacsVars, build>>
notSet == <<mapVars, boolVars, thVars, dimacsVars, build>>
notTheory == <<mapVars, boolVars, setVars, dimacsVars, build>>
notDimacs == <<mapVars, boolVars, setVars, thVars, build>>

\* ------------------------------------------------------------------ keys
\* AsIndex: a key is an opaque value with a bijection to a dense position.
from_index(index) == <<"key", index>>
as_index(k) == k[2]

Keys == {from_index(i) : i \in 0..MaxIndex}
BitKeys == {from_index(i) : i \in 0..MaxBitIndex}
Vals == 0..MaxVal
\* V::default() of an integer-valued map.
DefaultVal == 0

\* ---------------------------------------------------------------- IntMap
\* IntMap::new / Default::default: an empty vector.
IntMap_new == <<>>

IntMap_has(m, k) == as_index(k) < Len(m)

\* A reserve that sizes the vector to index instead of index + 1.
IntMap_reserve_short(m, key, pad) ==
    LET index == as_index(key)
    IN  IF index >= Len(m)
        THEN m \o [i \in 1..(index - Len(m)) |-> pad]
        ELSE m

\* A reserve that, when it grows, refills the whole vector with pad.
IntMap_reserve_refill(m, key, pad) ==
    LET index == as_index(key)
    IN  IF index >= Len(m)
        THEN [i \in 1..(index + 1) |-> pad]
        ELSE m

\* A reserve that, when the key is already covered, stores pad in its slot.
IntMap_reserve_overwrite(m, key, pad) ==
    LET index == as_index(key)
    IN  IF index >= Len(m)
        THEN m \o [i \in 1..(index + 1 - Len(m)) |-> pad]
        ELSE [m EXCEPT ![index + 1] = pad]

\* Vec::resize(index + 1, pad) under the guard index >= len only ever grows:
\* it appends index + 1 - len clones of pad.
IntMap_reserve(m, key, pad) ==
    LET index == as_index(key)
    IN  IF index >= Len(m)
        THEN m \o [i \in 1..(index + 1 - Len(m)) |-> pad]
        ELSE m

IntMap_reserve_default(m, key) ==
    LET index == as_index(key)
    IN  IF index >= Len(m)
        THEN LET len == index + 1 - Len(m)
             IN  m \o [i \in 1..len |-> DefaultVal]
        ELSE m

\* Index: &self.map[index], a bounds-checked slice read.
IntMap_index(m, index) ==
    IF as_index(index) < Len(m)
    THEN [panic |-> FALSE, val |-> m[as_index(index) + 1]]
    ELSE [panic |-> TRUE, val |-> DefaultVal]

\* IndexMut: self.map[index] = val, a bounds-checked slice write.
IntMap_index_mut(m, index, val) ==
    IF as_index(index) < Len(m)
    THEN [panic |-> FALSE, map |-> [m EXCEPT ![as_index(index) + 1] = val]]
    ELSE [panic |-> TRUE, map |-> m]

\* An insert that fills the slots it creates with the value, not the pad.
IntMap_insert_fill_val(m, key, val, pad) ==
    IntMap_index_mut(IntMap_reserve(m, key, val), key, val)

\* insert: self.reserve(key, pad); self[key] = val.
IntMap_insert(m, key, val, pad) ==
    IntMap_index_mut(IntMap_reserve(m, key, pad), key, val)

\* insert_default: self.reserve_default(key); self[key] = val.
IntMap_insert_default(m, key, val) ==
    IntMap_index_mut(IntMap_reserve_default(m, key), key, val)

\* A clear that leaves the contents in place.
IntMap_clear_kept(m) == m

\* Vec::clear: length becomes 0 (capacity is kept, and is not observable).
IntMap_clear(m) == <<>>

\* Vec::clear then Vec::shrink_to_fit.
IntMap_free(m) == <<>>

\* An enumeration that counts the slots from 1.
IntMap_iter_from_one(m) == [i \in 1..Len(m) |-> <<from_index(i), m[i]>>]

\* iter: self.map.iter().enumerate().map(|(k, v)| (K::from_index(k), v)).
\* The slice iterator visits the slots front to back, enumerate numbers them
\* from 0, and the closure turns each number into a key.
IntMap_iter(m) == [i \in 1..Len(m) |-> <<from_index(i - 1), m[i]>>]

\* iter_mut: the same enumeration over mutable references.
IntMap_iter_mut(m) == IntMap_iter(m)

\* ------------------------------------------------------------ IntMapBool
\* IntMapBool::new: BitVec::new(), no bits.
IntMapBool_new == <<>>

IntMapBool_has(bv, k) == as_index(k) < Len(bv)

\* Index: BitVec's index panics ("index out of bounds") outside 0..len-1.
IntMapBool_index(bv, index) ==
    IF as_index(index) < Len(bv)
    THEN [panic |-> FALSE, val |-> bv[as_index(index) + 1]]
    ELSE [panic |-> TRUE, val |-> FALSE]

\* BitVec::set asserts i < len, then writes the bit.
IntMapBool_set(bv, k, b) ==
    IF as_index(k) < Len(bv)
    THEN [panic |-> FALSE, map |-> [bv EXCEPT ![as_index(k) + 1] = b]]
    ELSE [panic |-> TRUE, map |-> bv]

\* A reserve that grows by index - len bits, one short of covering index.
IntMapBool_reserve_short(bv, key) ==
    LET index == as_index(key)
        len == Len(bv)
    IN  IF index >= len
        THEN bv \o [i \in 1..(index - len) |-> FALSE]
        ELSE bv

\* BitVec::grow(index - len + 1, false) appends that many false bits.
IntMapBool_reserve(bv, key) ==
    LET index == as_index(key)
        len == Len(bv)
    IN  IF index >= len
        THEN bv \o [i \in 1..(index - len + 1) |-> FALSE]
        ELSE bv

\* The storage blocks a BitVec of nbits bits uses.
BitVec_blocks(nbits) == (nbits + BlockBits - 1) \div BlockBits

\* BitVec::capacity: the capacity of the block vector times the block width.
\* The allocator decides the capacity; it is at least the blocks in use.
BitVec_capacities(bv) ==
    {(BitVec_blocks(Len(bv)) + spare) * BlockBits : spare \in 0..MaxSpareBlocks}

\* The condition of reserve's debug_assert!, read after the growth, for a
\* BitVec whose capacity is cap.
IntMapBool_reserve_assert(cap, key) == cap > as_index(key)

\* debug_assert! is compiled only into debug builds.
DebugAssertFails(b, cond) == b = "debug" /\ ~cond

\* A clear that leaves every bit as it was.
IntMapBool_clear_kept(bv) == bv

\* BitVec::clear zeroes every storage word and keeps the bit count: every
\* bit reads false afterwards and the length is what it was.
IntMapBool_clear(bv) == [i \in 1..Len(bv) |-> FALSE]

\* BitVec::clear, then BitVec::shrink_to_fit, which only trims the spare
\* capacity of the storage words in use.
IntMapBool_free(bv) == [i \in 1..Len(bv) |-> FALSE]

IntMapBool_insert(bv, key) ==
    IntMapBool_set(IntMapBool_reserve(bv, key), key, TRUE)

\* ---------------------------------------------------------------- IntSet
\* IntSet::default: an empty bitset and an empty key list.
IntSet_new == [in_set |-> IntMapBool_new, xs |-> <<>>]

IntSet_len(s) == Len(s.xs)

IntSet_as_slice(s) == s.xs

\* A clear that empties the key list and leaves the membership bits set.
IntSet_clear_list_only(s) == [in_set |-> s.in_set, xs |-> <<>>]

IntSet_clear(s) == [in_set |-> IntMapBool_clear(s.in_set), xs |-> <<>>]

\* An insert that pushes the key without consulting the membership bit.
IntSet_insert_always_push(s, k) ==
    LET w == IntMapBool_set(IntMapBool_reserve(s.in_set, k), k, TRUE)
    IN  [panic |-> w.panic, in_set |-> w.map, xs |-> Append(s.xs, k)]

\* reserve; then, when the bit reads false, set it and push the key.
IntSet_insert(s, k) ==
    LET r == IntMapBool_reserve(s.in_set, k)
        cur == IntMapBool_index(r, k)
        w == IntMapBool_set(r, k, TRUE)
    IN  IF cur.panic
        THEN [panic |-> TRUE, in_set |-> r, xs |-> s.xs]
        ELSE IF ~cur.val
             THEN [panic |-> w.panic, in_set |-> w.map,
                   xs |-> IF w.panic THEN s.xs ELSE Append(s.xs, k)]
             ELSE [panic |-> FALSE, in_set |-> r, xs |-> s.xs]

\* A has that reads the bit without the has(k) guard.
IntSet_has_unguarded(s, k) == IntMapBool_index(s.in_set, k)

\* in_set.has(k) && in_set[k]: the bit is read only when has(k) holds.
IntSet_has(s, k) ==
    IF IntMapBool_has(s.in_set, k)
    THEN IntMapBool_index(s.in_set, k)
    ELSE [panic |-> FALSE, val |-> FALSE]

\* ----------------------------------------------------------- EmptyTheory
UsizeModulus == 2 ^ UsizeBits

Lits == 1..MaxLit
Clauses == {<<>>} \cup {<<l>> : l \in Lits}
ClauseRefs == 0..MaxCRef
\* TheoryArg: a view of the candidate model and the conflict buffer.
TheoryArgs == [model : Clauses, conflict : Clauses]

\* EmptyTheory::new: EmptyTheory(0).
EmptyTheory_new == 0

\* self.0 += 1: an overflow panics with overflow checks on and wraps without.
EmptyTheory_create_level(b, self) ==
    IF self + 1 >= UsizeModulus
    THEN IF b = "debug"
         THEN [panic |-> TRUE, levels |-> self]
         ELSE [panic |-> FALSE, levels |-> (self + 1) % UsizeModulus]
    ELSE [panic |-> FALSE, levels |-> self + 1]

\* A pop that removes one level whatever n is.
EmptyTheory_pop_levels_one(b, self, n) ==
    IF self >= n
    THEN [panic |-> FALSE, levels |-> IF n = 0 THEN self ELSE self - 1]
    ELSE IF b = "debug"
         THEN [panic |-> TRUE, levels |-> self]
         ELSE [panic |-> FALSE, levels |-> (self - n) % UsizeModulus]

\* debug_assert!(self.0 >= n); self.0 -= n.  The assertion is compiled only
\* with debug assertions on; without them the subtraction wraps.
EmptyTheory_pop_levels(b, self, n) ==
    IF self >= n
    THEN [panic |-> FALSE, levels |-> self - n]
    ELSE IF b = "debug"
         THEN [panic |-> TRUE, levels |-> self]
         ELSE [panic |-> FALSE, levels |-> (self - n) % UsizeModulus]

EmptyTheory_n_levels(self) == self

\* A final_check that raises the candidate model as a conflict.
EmptyTheory_final_check_raises(self, a) ==
    [levels |-> self, acts |-> [a EXCEPT !.conflict = a.model]]

\* fn final_check(&mut self, _: &mut TheoryArg) {}
EmptyTheory_final_check(self, a) == [levels |-> self, acts |-> a]

\* The trait's default partial_check, which EmptyTheory keeps: an empty body.
Theory_partial_check(self, a) == [levels |-> self, acts |-> a]

\* The trait's default notification hooks, which EmptyTheory keeps.
Theory_on_new_clause(self, clause) == self
Theory_on_start_gc(self) == self
Theory_on_realloc(self, old, new) == self
Theory_on_final_lit_explanation(self, lit, reason) == self

\* unreachable!(): panics in every build; no clause is returned.
EmptyTheory_explain_propagation_clause(self, p) ==
    [panic |-> TRUE, levels |-> self, clause |-> <<>>]

\* A default that answers with the unit clause [p] instead of forwarding.
Theory_explain_final_unit(self, p) ==
    [panic |-> FALSE, levels |-> self, clause |-> <<p>>]

\* The trait's default: forwards to explain_propagation_clause.
Theory_explain_propagation_clause_final(self, p) ==
    EmptyTheory_explain_propagation_clause(self, p)

\* ------------------------------------------------------------- ClauseRef
\* A ClauseRef is its raw integer: the struct is repr(transparent) over CRef.
CRefModulus == 2 ^ CRefBits
RawCRefs == 0..(CRefModulus - 1)

\* The two reserved bit patterns: all ones, and all ones but the lowest bit.
ClauseRef_UNDEF == CRefModulus - 1
ClauseRef_SPECIAL == CRefModulus - 2

\* A string is the sequence of its characters.
DigitChars == <<"0", "1", "2", "3", "4", "5", "6", "7", "8", "9">>

\* Display for an unsigned integer: its decimal digits, most significant
\* first, with no padding.
RECURSIVE u32_fmt(_)
u32_fmt(n) ==
    IF n < 10
    THEN <<DigitChars[n + 1]>>
    ELSE Append(u32_fmt(n \div 10), DigitChars[(n % 10) + 1])

\* A rendering that prints both sentinels with the same token.
ClauseRef_fmt_one_token(self) ==
    IF self = ClauseRef_UNDEF \/ self = ClauseRef_SPECIAL
    THEN <<"c", "r", "U", "N", "D", "E", "F">>
    ELSE <<"c", "r">> \o u32_fmt(self)

\* impl Debug for ClauseRef: fmt.  must_cast is the bit-identical u32.
ClauseRef_fmt(self) ==
    IF self = ClauseRef_UNDEF
    THEN <<"c", "r", "U", "N", "D", "E", "F">>
    ELSE IF self = ClauseRef_SPECIAL
         THEN <<"c", "r", "S", "P", "E", "C", "I", "A", "L">>
         ELSE LET u32_val == self
              IN  <<"c", "r">> \o u32_fmt(u32_val)

\* ---------------------------------------------------------------- dimacs
\* A byte is its value; the reader is the pair (bytes, bytes consumed).
None == -1
Whitespace == (9..13) \cup {32}
Digits == 48..57
HeaderBytes == <<112, 32, 99, 110, 102>>

\* The bytes inputs are built from: p c space newline + - 0 2 5 6.
Alphabet == {112, 99, 32, 10, 43, 45, 48, 50, 53, 54}

\* i32, narrowed to IntBits bits.
IntModulus == 2 ^ IntBits
IntMin == -(2 ^ (IntBits - 1))
IntMax == 2 ^ (IntBits - 1) - 1
Overflows(x) == x < IntMin \/ x > IntMax
\* Two's-complement wrapping of an arithmetic result.
Wrap(x) == ((x - IntMin) % IntModulus) + IntMin
\* An overflowing operation panics where overflow checks are compiled in.
OverflowPanics(b, x) == b = "debug" /\ Overflows(x)

\* next_byte: the first byte not yet consumed, None at the end of input.
next_byte(inp, p) == IF p < Len(inp) THEN inp[p + 1] ELSE None

\* parse_error: Err(io::Error::new(ErrorKind::InvalidInput, message)).
parse_error == "Err(InvalidInput)"

is_whitespace(ch) == ch # None /\ ((9 <= ch /\ ch <= 13) \/ ch = 32)

\* skip_whitespace: consume for as long as the next byte is whitespace.
RECURSIVE skip_whitespace(_, _)
skip_whitespace(inp, p) ==
    IF is_whitespace(next_byte(inp, p))
    THEN skip_whitespace(inp, p + 1)
    ELSE p

\* skip_line: consume up to and including the next newline, or to the end.
RECURSIVE skip_line(_, _)
skip_line(inp, p) ==
    LET ch == next_byte(inp, p)
    IN  IF ch = None THEN p
        ELSE IF ch = 10 THEN p + 1
        ELSE skip_line(inp, p + 1)

\* The digit loop of parse_int: val = val * 10 + (ch - b'0').
RECURSIVE parse_digits(_, _, _, _)
parse_digits(b, inp, p, val) ==
    LET ch == next_byte(inp, p)
    IN  IF ch = None \/ ~(48 <= ch /\ ch <= 57)
        THEN [pos |-> p, val |-> val, panic |-> FALSE]
        ELSE IF OverflowPanics(b, val * 10)
                 \/ OverflowPanics(b, Wrap(val * 10) + (ch - 48))
             THEN [pos |-> p + 1, val |-> val, panic |-> TRUE]
             ELSE parse_digits(b, inp, p + 1, Wrap(val * 10 + (ch - 48)))

\* parse_int: whitespace, an optional sign, then at least one digit.
parse_int(b, inp, p) ==
    LET p1 == skip_whitespace(inp, p)
        ch == next_byte(inp, p1)
        signed == ch = 43 \/ ch = 45
        neg == signed /\ ch = 45
        p2 == IF signed THEN p1 + 1 ELSE p1
        ch2 == next_byte(inp, p2)
    IN  IF ch2 = None \/ ~(48 <= ch2 /\ ch2 <= 57)
        THEN [pos |-> p2, val |-> 0, err |-> TRUE, panic |-> FALSE]
        ELSE LET d == parse_digits(b, inp, p2, 0)
             IN  IF d.panic \/ (neg /\ OverflowPanics(b, -d.val))
                 THEN [pos |-> d.pos, val |-> 0, err |-> FALSE, panic |-> TRUE]
                 ELSE [pos |-> d.pos,
                       val |-> IF neg THEN Wrap(-d.val) ELSE d.val,
                       err |-> FALSE, panic |-> FALSE]

\* Lit::new(Var::from_idx(var), sign).
Lit_new(var, sign) == [var |-> var, sign |-> sign]

Abs(x) == IF x < 0 THEN -x ELSE x

\* One iteration of read_clause's loop, from reader position p with ls
\* already pushed: parse_int, then return on 0 or push the literal.
read_clause(b, inp, p, ls) ==
    LET r == parse_int(b, inp, p)
        out == [pos |-> r.pos, lits |-> ls, err |-> r.err, panic |-> r.panic,
                returned |-> r.err, ints |-> <<>>]
    IN  IF r.err \/ r.panic
        THEN out
        ELSE IF r.val = 0
        THEN [out EXCEPT !.returned = TRUE, !.ints = <<0>>]
        ELSE IF OverflowPanics(b, Abs(r.val))
                \/ OverflowPanics(b, Wrap(Abs(r.val)) - 1)
        THEN [out EXCEPT !.panic = TRUE]
        ELSE LET var == Wrap(Wrap(Abs(r.val)) - 1) % IntModulus
             IN  [out EXCEPT !.lits = Append(ls, Lit_new(var, r.val < 0)),
                             !.ints = <<r.val>>]

\* One iteration of parse's loop, from the parser state st, up to the point
\* where it has a header, a comment or the end of input behind it, or has
\* entered read_clause (at = "read_clause", the buffer cleared).
parse(b, inp, st) ==
    LET p1 == skip_whitespace(inp, st.pos)
        ch == next_byte(inp, p1)
        same == [pos |-> p1, result |-> "none", lits |-> st.lits,
                 num_vars |-> st.num_vars, num_clauses |-> st.num_clauses,
                 panic |-> FALSE, branch |-> "eof", at |-> "parse",
                 calls |-> <<>>, ints |-> <<>>]
    IN  IF ch = 112
        THEN IF Len(inp) - p1 < 5
             THEN \* read_exact fails on a short read
                  [same EXCEPT !.branch = "header", !.pos = Len(inp),
                               !.result = "Err(UnexpectedEof)"]
             ELSE IF SubSeq(inp, p1 + 1, p1 + 5) # HeaderBytes
             THEN [same EXCEPT !.branch = "header", !.pos = p1 + 5,
                               !.result = parse_error]
             ELSE LET nv == parse_int(b, inp, p1 + 5)
                      nc == parse_int(b, inp, nv.pos)
                  IN  IF nv.err \/ nv.panic
                      THEN [same EXCEPT
                              !.branch = "header", !.pos = nv.pos,
                              !.panic = nv.panic, !.calls = <<p1 + 5>>,
                              !.result = IF nv.err THEN parse_error
                                         ELSE "none"]
                      ELSE [same EXCEPT
                              !.branch = "header", !.pos = nc.pos,
                              !.panic = nc.panic,
                              !.calls = <<p1 + 5, nv.pos>>,
                              !.ints = IF nc.err \/ nc.panic THEN <<nv.val>>
                                       ELSE <<nv.val, nc.val>>,
                              !.num_vars = nv.val,
                              !.num_clauses = IF nc.err \/ nc.panic
                                              THEN st.num_clauses
                                              ELSE nc.val,
                              !.result = IF nc.err THEN parse_error
                                         ELSE "none"]
        ELSE IF ch = 99
        THEN [same EXCEPT !.branch = "comment", !.pos = skip_line(inp, p1)]
        ELSE IF ch # None
        THEN [same EXCEPT !.branch = "clause", !.at = "read_clause",
                          !.lits = <<>>]
        ELSE [same EXCEPT !.result = "Ok"]

\* IntSet::new followed by insert of each key of ks, in order.
RECURSIVE IntSet_from_inserts(_)
IntSet_from_inserts(ks) ==
    IF ks = <<>>
    THEN [panic |-> FALSE, in_set |-> IntSet_new.in_set, xs |-> IntSet_new.xs]
    ELSE LET before == IntSet_from_inserts(SubSeq(ks, 1, Len(ks) - 1))
         IN  IF before.panic
             THEN before
             ELSE IntSet_insert([in_set |-> before.in_set, xs |-> before.xs],
                                ks[Len(ks)])

Outcome(panic) == IF panic THEN "panicked" ELSE "running"

MapReserve ==
    \E k \in Keys, pad \in Vals :
        /\ status = "running"
        /\ map' = IntMap_reserve(map, k, pad)
        /\ reserved' = reserved \cup {k}
        /\ op' = [name |-> "reserve", key |-> k, pad |-> pad]
        /\ UNCHANGED <<status, notMap>>

MapReserveDefault ==
    \E k \in Keys :
        /\ status = "running"
        /\ map' = IntMap_reserve_default(map, k)
        /\ reserved' = reserved \cup {k}
        /\ op' = [name |-> "reserve_default", key |-> k]
        /\ UNCHANGED <<status, notMap>>

MapInsert ==
    \E k \in Keys, v \in Vals, pad \in Vals :
        LET r == IntMap_insert(map, k, v, pad)
        IN  /\ status = "running"
            /\ map' = r.map
            /\ status' = Outcome(r.panic)
            /\ reserved' = reserved \cup {k}
            /\ op' = [name |-> "insert", key |-> k, val |-> v, pad |-> pad]
            /\ UNCHANGED notMap

MapInsertDefault ==
    \E k \in Keys, v \in Vals :
        LET r == IntMap_insert_default(map, k, v)
        IN  /\ status = "running"
            /\ map' = r.map
            /\ status' = Outcome(r.panic)
            /\ reserved' = reserved \cup {k}
            /\ op' = [name |-> "insert_default", key |-> k, val |-> v]
            /\ UNCHANGED notMap

MapIndexMut ==
    \E k \in Keys, v \in Vals :
        LET r == IntMap_index_mut(map, k, v)
        IN  /\ status = "running"
            /\ map' = r.map
            /\ status' = Outcome(r.panic)
            /\ op' = [name |-> "index_mut", key |-> k, val |-> v]
            /\ UNCHANGED <<reserved, notMap>>

MapIndex ==
    \E k \in Keys :
        LET r == IntMap_index(map, k)
        IN  /\ status = "running"
            /\ status' = Outcome(r.panic)
            /\ op' = [name |-> "index", key |-> k]
            /\ UNCHANGED <<map, reserved, notMap>>

MapClear ==
    /\ status = "running"
    /\ map' = IntMap_clear(map)
    /\ op' = [name |-> "clear"]
    /\ UNCHANGED <<reserved, status, notMap>>

MapFree ==
    /\ status = "running"
    /\ map' = IntMap_free(map)
    /\ op' = [name |-> "free"]
    /\ UNCHANGED <<reserved, status, notMap>>

\* A caller runs a fresh iterator to its end; op records what it yielded.
MapIter ==
    /\ status = "running"
    /\ op' = [name |-> "iter", items |-> IntMap_iter(map)]
    /\ UNCHANGED <<map, reserved, status, notMap>>

\* A caller runs iter_mut to its end and assigns through at most one of the
\* references it was handed (written: the positions assigned, 1-based).
MapIterMut ==
    \E w \in {0} \cup (1..Len(map)), v \in Vals :
        LET items == IntMap_iter_mut(map)
        IN  /\ status = "running"
            /\ w = 0 => v = DefaultVal
            /\ map' = IF w = 0 THEN map ELSE [map EXCEPT ![w] = v]
            /\ op' = [name |-> "iter_mut", items |-> items,
                      written |-> IF w = 0 THEN {} ELSE {w}, val |-> v]
            /\ UNCHANGED <<reserved, status, notMap>>

BoolReserve ==
    \E k \in BitKeys :
        LET grown == IntMapBool_reserve(bits, k)
        IN  \E cap \in BitVec_capacities(grown) :
                /\ status = "running"
                /\ bits' = grown
                /\ status' = Outcome(DebugAssertFails(build,
                                         IntMapBool_reserve_assert(cap, k)))
                /\ op' = [name |-> "bool_reserve", key |-> k]
                /\ UNCHANGED notBool

BoolSet ==
    \E k \in BitKeys, b \in BOOLEAN :
        LET r == IntMapBool_set(bits, k, b)
        IN  /\ status = "running"
            /\ bits' = r.map
            /\ status' = Outcome(r.panic)
            /\ op' = [name |-> "bool_set", key |-> k, val |-> b]
            /\ UNCHANGED notBool

BoolInsert ==
    \E k \in BitKeys :
        LET grown == IntMapBool_reserve(bits, k)
            r == IntMapBool_insert(bits, k)
        IN  \E cap \in BitVec_capacities(grown) :
                LET failed == DebugAssertFails(build,
                                  IntMapBool_reserve_assert(cap, k))
                IN  /\ status = "running"
                    /\ bits' = IF failed THEN grown ELSE r.map
                    /\ status' = Outcome(failed \/ r.panic)
                    /\ op' = [name |-> "bool_insert", key |-> k]
                    /\ UNCHANGED notBool

BoolIndex ==
    \E k \in BitKeys :
        LET r == IntMapBool_index(bits, k)
        IN  /\ status = "running"
            /\ status' = Outcome(r.panic)
            /\ op' = [name |-> "bool_index", key |-> k]
            /\ UNCHANGED <<bits, notBool>>

BoolClear ==
    /\ status = "running"
    /\ bits' = IntMapBool_clear(bits)
    /\ op' = [name |-> "bool_clear"]
    /\ UNCHANGED <<status, notBool>>

BoolFree ==
    /\ status = "running"
    /\ bits' = IntMapBool_free(bits)
    /\ op' = [name |-> "bool_free"]
    /\ UNCHANGED <<status, notBool>>

\* The IntSet value held in the state.
set == [in_set |-> in_set, xs |-> xs]

SetInsert ==
    \E k \in BitKeys :
        LET grown == IntMapBool_reserve(in_set, k)
            r == IntSet_insert(set, k)
        IN  \E cap \in BitVec_capacities(grown) :
                LET failed == DebugAssertFails(build,
                                  IntMapBool_reserve_assert(cap, k))
                IN  /\ status = "running"
                    /\ Len(hist) < MaxInserts
                    /\ in_set' = IF failed THEN grown ELSE r.in_set
                    /\ xs' = IF failed THEN xs ELSE r.xs
                    /\ status' = Outcome(failed \/ r.panic)
                    /\ hist' = Append(hist, k)
                    /\ op' = [name |-> "set_insert", key |-> k]
                    /\ UNCHANGED notSet

SetClear ==
    LET r == IntSet_clear(set)
    IN  /\ status = "running"
        /\ in_set' = r.in_set
        /\ xs' = r.xs
        /\ hist' = <<>>
        /\ op' = [name |-> "set_clear"]
        /\ UNCHANGED <<status, notSet>>

TheoryCreateLevel ==
    LET r == EmptyTheory_create_level(build, levels)
    IN  /\ status = "running"
        /\ created < MaxCreate
        /\ levels' = r.levels
        /\ status' = Outcome(r.panic)
        /\ created' = created + 1
        /\ op' = [name |-> "create_level"]
        /\ UNCHANGED <<popped, acts, notTheory>>

TheoryPopLevels ==
    \E n \in 0..MaxPopped :
        LET r == EmptyTheory_pop_levels(build, levels, n)
        IN  /\ status = "running"
            /\ popped + n <= MaxPopped
            /\ levels' = r.levels
            /\ status' = Outcome(r.panic)
            /\ popped' = popped + n
            /\ op' = [name |-> "pop_levels", n |-> n]
            /\ UNCHANGED <<created, acts, notTheory>>

TheoryFinalCheck ==
    \E a \in TheoryArgs :
        LET r == EmptyTheory_final_check(levels, a)
        IN  /\ status = "running"
            /\ levels' = r.levels
            /\ acts' = r.acts
            /\ op' = [name |-> "final_check", arg |-> a]
            /\ UNCHANGED <<status, created, popped, notTheory>>

TheoryPartialCheck ==
    \E a \in TheoryArgs :
        LET r == Theory_partial_check(levels, a)
        IN  /\ status = "running"
            /\ levels' = r.levels
            /\ acts' = r.acts
            /\ op' = [name |-> "partial_check", arg |-> a]
            /\ UNCHANGED <<status, created, popped, notTheory>>

TheoryOnNewClause ==
    \E c \in Clauses :
        /\ status = "running"
        /\ levels' = Theory_on_new_clause(levels, c)
        /\ op' = [name |-> "on_new_clause", clause |-> c]
        /\ UNCHANGED <<status, created, popped, acts, notTheory>>

TheoryOnStartGc ==
    /\ status = "running"
    /\ levels' = Theory_on_start_gc(levels)
    /\ op' = [name |-> "on_start_gc"]
    /\ UNCHANGED <<status, created, popped, acts, notTheory>>

TheoryOnRealloc ==
    \E old \in ClauseRefs, new \in ClauseRefs :
        /\ status = "running"
        /\ levels' = Theory_on_realloc(levels, old, new)
        /\ op' = [name |-> "on_realloc", old |-> old, new |-> new]
        /\ UNCHANGED <<status, created, popped, acts, notTheory>>

TheoryOnFinalLitExplanation ==
    \E l \in Lits, reason \in ClauseRefs :
        /\ status = "running"
        /\ levels' = Theory_on_final_lit_explanation(levels, l, reason)
        /\ op' = [name |-> "on_final_lit_explanation", lit |-> l,
                  reason |-> reason]
        /\ UNCHANGED <<status, created, popped, acts, notTheory>>

TheoryExplain ==
    \E p \in Lits :
        LET r == EmptyTheory_explain_propagation_clause(levels, p)
        IN  /\ status = "running"
            /\ levels' = r.levels
            /\ status' = Outcome(r.panic)
            /\ op' = [name |-> "explain_propagation_clause", lit |-> p]
            /\ UNCHANGED <<created, popped, acts, notTheory>>

TheoryExplainFinal ==
    \E p \in Lits :
        LET r == Theory_explain_propagation_clause_final(levels, p)
        IN  /\ status = "running"
            /\ levels' = r.levels
            /\ status' = Outcome(r.panic)
            /\ op' = [name |-> "explain_propagation_clause_final", lit |-> p]
            /\ UNCHANGED <<created, popped, acts, notTheory>>

\* format!("{:?}", cr) for some handle; op records the handle and the text.
DebugFmt ==
    \E cr \in RawCRefs :
        /\ status = "running"
        /\ op' = [name |-> "fmt", cr |-> cr, out |-> ClauseRef_fmt(cr)]
        /\ UNCHANGED <<thVars, status, notTheory>>

\* One iteration of parse's loop, up to its end or to the call of
\* read_clause.  op.start is the reader position the iteration began at.
ParseLoop ==
    LET r == parse(build, input,
                   [pos |-> pos, lits |-> lits, num_vars |-> num_vars,
                    num_clauses |-> num_clauses])
    IN  /\ status = "running"
        /\ result = "none"
        /\ at = "parse"
        /\ pos' = r.pos
        /\ result' = r.result
        /\ at' = r.at
        /\ lits' = r.lits
        /\ num_vars' = r.num_vars
        /\ num_clauses' = r.num_clauses
        /\ status' = Outcome(r.panic)
        /\ op' = [name |-> "parse", branch |-> r.branch, start |-> pos,
                  calls |-> r.calls, ints |-> r.ints]
        /\ UNCHANGED <<input, notDimacs>>

\* One iteration of read_clause's loop; on its return the iteration of
\* parse's loop that called it ends.
ParseClause ==
    LET r == read_clause(build, input, pos, lits)
    IN  /\ status = "running"
        /\ result = "none"
        /\ at = "read_clause"
        /\ pos' = r.pos
        /\ result' = IF r.err THEN parse_error ELSE "none"
        /\ at' = IF r.returned /\ ~r.err THEN "parse" ELSE "read_clause"
        /\ lits' = r.lits
        /\ status' = Outcome(r.panic)
        /\ op' = [name |-> "read_clause", branch |-> "clause",
                  start |-> op.start, calls |-> <<pos>>, ints |-> r.ints]
        /\ UNCHANGED <<input, num_vars, num_clauses, notDimacs>>

\* The byte sequences of at most n bytes over Alphabet.
BytesUpTo(n) == UNION {[1..k -> Alphabet] : k \in 0..n}

\* The inputs parse is run on: short byte sequences, bare or after a header
\* line start, well-formed ("p cnf") or not ("p dnf").
InputsUpTo(n) ==
    {prefix \o body : prefix \in {<<>>, HeaderBytes, <<112, 32, 100, 110, 102>>},
                      body \in BytesUpTo(n)}

\* parse's locals at entry, over the reader's bytes.
ParserStart(bytes) ==
    /\ input = bytes
    /\ pos = 0
    /\ at = "parse"
    /\ result = "none"
    /\ lits = <<>>
    /\ num_vars = 0
    /\ num_clauses = 0

InitObjects ==
    /\ levels = EmptyTheory_new
    /\ created = 0
    /\ popped = 0
    /\ acts = [model |-> <<>>, conflict |-> <<>>]
    /\ build \in {"debug", "release"}
    /\ map = IntMap_new
    /\ reserved = {}
    /\ bits = IntMapBool_new
    /\ in_set = IntSet_new.in_set
    /\ xs = IntSet_new.xs
    /\ hist = <<>>
    /\ op = [name |-> "new"]
    /\ status = "running"

Init == InitObjects /\ ParserStart(<<>>)

InitDimacs ==
    InitObjects /\ \E bytes \in InputsUpTo(MaxInputLen) : ParserStart(bytes)

\* Only the growing calls, on a map that starts empty.
NextMapGrow ==
    \/ MapReserve
    \/ MapReserveDefault
    \/ MapInsert
    \/ MapInsertDefault

SpecMapGrow == Init /\ [][NextMapGrow]_vars

NextMap ==
    \/ MapReserve
    \/ MapReserveDefault
    \/ MapInsert
    \/ MapInsertDefault
    \/ MapIndexMut
    \/ MapIndex
    \/ MapIter
    \/ MapIterMut
    \/ MapClear
    \/ MapFree

SpecMap == Init /\ [][NextMap]_vars

NextBool ==
    \/ BoolReserve
    \/ BoolSet
    \/ BoolInsert
    \/ BoolIndex
    \/ BoolClear
    \/ BoolFree

SpecBool == Init /\ [][NextBool]_vars

\* Only insertions, into a set that starts empty.
NextSetInsert == SetInsert

SpecSetInsert == Init /\ [][NextSetInsert]_vars

NextSet ==
    \/ SetInsert
    \/ SetClear

SpecSet == Init /\ [][NextSet]_vars

\* A run that exercises one of the three containers.  The containers are
\* separate objects and a call on one leaves the others alone, so runs that
\* mix them add no behaviour of any single container.
MapOpNames == {"reserve", "reserve_default", "insert", "insert_default",
               "index_mut", "index", "iter", "iter_mut", "clear", "free"}
BoolOpNames == {"bool_reserve", "bool_set", "bool_insert", "bool_index",
                "bool_clear", "bool_free"}
SetOpNames == {"set_insert", "set_clear"}

NextContainers ==
    \/ op.name \in {"new"} \cup MapOpNames /\ NextMap
    \/ op.name \in {"new"} \cup BoolOpNames /\ NextBool
    \/ op.name \in {"new"} \cup SetOpNames /\ NextSet

SpecContainers == Init /\ [][NextContainers]_vars

NextTheory ==
    \/ TheoryCreateLevel
    \/ TheoryPopLevels
    \/ TheoryFinalCheck
    \/ TheoryPartialCheck
    \/ TheoryOnNewClause
    \/ TheoryOnStartGc
    \/ TheoryOnRealloc
    \/ TheoryOnFinalLitExplanation
    \/ TheoryExplain
    \/ TheoryExplainFinal

SpecTheory == Init /\ [][NextTheory]_vars

\* Rendering clause handles.
NextDebug == DebugFmt

SpecDebug == Init /\ [][NextDebug]_vars

\* parse, run to its end on a fixed input.
NextDimacs == ParseLoop \/ ParseClause

SpecDimacs == InitDimacs /\ [][NextDimacs]_vars

\* ------------------------------------------------------------ properties
MaxReservedIndex ==
    CHOOSE i \in {as_index(k) : k \in reserved} :
        \A k \in reserved : as_index(k) <= i

\* C1: after any sequence of reserve / reserve_default / insert /
\* insert_default calls on an initially empty IntMap, has(k) holds for every
\* key that was reserved or inserted, and the length is 1 + the largest index
\* among the keys ever reserved (0 while none was).
C1_GrowCoversReserved ==
    /\ \A k \in reserved : IntMap_has(map, k)
    /\ reserved # {} => Len(map) = 1 + MaxReservedIndex
    /\ reserved = {} => Len(map) = 0

C1_Witness ==
    /\ op.name = "insert"
    /\ Cardinality(reserved) >= 2
    /\ from_index(MaxIndex) \in reserved
    /\ Len(map) = MaxIndex + 1

GrowNames == {"reserve", "reserve_default", "insert", "insert_default"}

\* C2: a clear() leaves has(k) false for every key; a key's has(k) turns
\* true only by a reserve/insert call of that key or of a key with a larger
\* index; and a free() leaves the map in the state of a freshly constructed
\* one (every later has/read depends on that state alone).
C2_ClearThenFree ==
    [][ /\ op'.name = "clear" => \A k \in Keys : ~IntMap_has(map', k)
        /\ \A k \in Keys :
              (~IntMap_has(map, k) /\ IntMap_has(map', k)) =>
                  /\ op'.name \in GrowNames
                  /\ as_index(op'.key) >= as_index(k)
        /\ op'.name = "free" => map' = IntMap_new ]_vars

C2_Witness ==
    /\ op.name = "clear"
    /\ reserved # {}
    /\ \A k \in Keys : ~IntMap_has(map, k)

BoolGrowNames == {"bool_reserve", "bool_insert"}

\* C3: IntMapBool obeys IntMap's clear contract: a clear() leaves has(k)
\* false for every key, has(k) turns true only by a reserve/insert of that
\* key or of a key with a larger index, and a free() leaves the bitset in
\* the state of a freshly constructed one.
C3_BoolClearContract ==
    [][ /\ op'.name = "bool_clear" => \A k \in BitKeys : ~IntMapBool_has(bits', k)
        /\ \A k \in BitKeys :
              (~IntMapBool_has(bits, k) /\ IntMapBool_has(bits', k)) =>
                  /\ op'.name \in BoolGrowNames
                  /\ as_index(op'.key) >= as_index(k)
        /\ op'.name = "bool_free" => bits' = IntMapBool_new ]_vars

Range(f) == {f[i] : i \in DOMAIN f}

\* The position of the first occurrence of x in the sequence ks.
FirstPos(ks, x) == CHOOSE i \in DOMAIN ks : ks[i] = x /\ \A j \in 1..(i - 1) : ks[j] # x

\* C4: after any sequence of inserts (with repeats) into an initially empty
\* IntSet, len() is the number of distinct keys inserted, and as_slice lists
\* each distinct key exactly once, in the order of first insertion.
C4_FirstInsertionOrder ==
    /\ IntSet_len(set) = Cardinality(Range(hist))
    /\ Range(IntSet_as_slice(set)) = Range(hist)
    /\ \A i, j \in DOMAIN xs :
          i < j => FirstPos(hist, IntSet_as_slice(set)[i])
                     < FirstPos(hist, IntSet_as_slice(set)[j])

\* Scenario B: inserting 3, 1, 3, 2 yields [3, 1, 2] and len 3.
C4_Witness ==
    /\ hist = <<from_index(3), from_index(1), from_index(3), from_index(2)>>
    /\ IntSet_as_slice(set) = <<from_index(3), from_index(1), from_index(2)>>
    /\ IntSet_len(set) = 3

\* The keys a query is made with: one index past every key ever inserted.
ProbeKeys == {from_index(i) : i \in 0..(MaxBitIndex + 1)}

PopCount(bv) == Cardinality({i \in DOMAIN bv : bv[i]})

\* C5: in every state reachable by insert and clear calls, for every key
\* (also one whose index the bitset never covered) has(k) returns without
\* failing and is true iff k occurs in xs; xs has no duplicates; and len(xs)
\* is the number of membership bits that are true.
C5_SetInvariant ==
    /\ \A k \in ProbeKeys :
          /\ ~IntSet_has(set, k).panic
          /\ IntSet_has(set, k).val <=> k \in Range(xs)
    /\ \A i, j \in DOMAIN xs : i # j => xs[i] # xs[j]
    /\ Len(xs) = PopCount(in_set)

\* A set cleared and refilled with fewer keys: bits beyond the members stay
\* covered, and a key past the bitset is probed.
C5_Witness ==
    /\ op.name = "set_insert"
    /\ xs = <<from_index(0)>>
    /\ Len(in_set) = MaxBitIndex + 1
    /\ ~IntSet_has(set, from_index(MaxBitIndex + 1)).val

\* C6: right after clear(), len() is 0 and has(k) is false for every key;
\* and the ordered sequence after a clear followed by the insertions hist is
\* the one a fresh set produces for hist, whatever was inserted before.
C6_ClearRestartsOrder ==
    /\ op.name = "set_clear" =>
          /\ IntSet_len(set) = 0
          /\ \A k \in ProbeKeys :
                ~IntSet_has(set, k).panic /\ ~IntSet_has(set, k).val
    /\ IntSet_as_slice(set) = IntSet_from_inserts(hist).xs

\* Keys inserted after a clear of a set that had held a larger key.
C6_Witness ==
    /\ op.name = "set_insert"
    /\ Len(hist) >= 2
    /\ Len(xs) >= 2
    /\ Len(in_set) > Len(IntSet_from_inserts(hist).in_set)

\* C7: while no call has panicked and the pops do not exceed the creates,
\* n_levels() is the number of create_level calls minus the sum of the
\* pop_levels arguments.  (Runs whose every pop_levels argument is at most
\* the count current at that call are among these.)
C7_LevelCount ==
    (status = "running" /\ popped <= created) =>
        EmptyTheory_n_levels(levels) = created - popped

\* Scenario C: create_level, create_level, pop_levels(1) gives 1.
C7_Witness ==
    /\ op.name = "pop_levels"
    /\ op.n = 1
    /\ created = 2
    /\ popped = 1
    /\ status = "running"
    /\ EmptyTheory_n_levels(levels) = 1

\* C8: a pop_levels(n) call with n greater than the current level count
\* always ends in a failure and never returns normally.
C8_PopUnderflowFails ==
    [][ (status = "running" /\ op'.name = "pop_levels" /\ op'.n > levels)
            => status' = "panicked" ]_vars

CheckNames == {"final_check", "partial_check"}
HookNames == {"on_new_clause", "on_start_gc", "on_realloc",
              "on_final_lit_explanation"}

\* C9: partial_check and final_check return normally and leave the level
\* count and the TheoryArg (its conflict buffer included) as they were
\* passed, for every state and candidate model; the notification hooks
\* return normally and leave the level count and the conflict buffer alone.
C9_ChecksAndHooksAreNoOps ==
    [][ /\ op'.name \in CheckNames =>
              /\ status' = "running"
              /\ levels' = levels
              /\ acts' = op'.arg
              /\ acts'.conflict = op'.arg.conflict
        /\ op'.name \in HookNames =>
              /\ status' = "running"
              /\ levels' = levels
              /\ acts' = acts ]_vars

C9_Witness ==
    /\ op.name = "final_check"
    /\ levels > 0
    /\ acts.model # <<>>
    /\ acts.conflict = <<>>
    /\ status = "running"

ExplainNames == {"explain_propagation_clause",
                 "explain_propagation_clause_final"}

\* C10: explain_propagation_clause on EmptyTheory panics for every literal
\* and state, and so does explain_propagation_clause_final, which forwards
\* to it: neither returns a clause.
C10_ExplainPanics ==
    op.name \in ExplainNames => status = "panicked"

C10_Witness ==
    /\ op.name = "explain_propagation_clause_final"
    /\ status = "panicked"
    /\ levels > 0

\* The pad a growing call fills with: its pad argument, or V::default().
PadOf(o) ==
    IF o.name \in {"reserve", "insert"} THEN o.pad ELSE DefaultVal

\* The slot a call writes explicitly, as a set of positions of map.
WrittenBy(o) ==
    IF o.name \in {"insert", "insert_default", "index_mut"}
    THEN {as_index(o.key) + 1}
    ELSE IF o.name = "iter_mut" THEN o.written ELSE {}

\* C11: every slot below the length that was never written explicitly holds
\* the pad (or default) of the call that grew the map over it.  In inductive
\* form, for every call: each slot the call creates and does not write
\* explicitly holds that call's pad, and each slot that existed before and
\* is not written explicitly by the call keeps its value.
C11_UnwrittenSlotsHoldPad ==
    [][ /\ \A i \in (Len(map) + 1)..Len(map') :
              i \notin WrittenBy(op') =>
                  /\ op'.name \in GrowNames
                  /\ map'[i] = PadOf(op')
        /\ \A i \in 1..Len(map') :
              (i <= Len(map) /\ i \notin WrittenBy(op')) => map'[i] = map[i]
      ]_vars

\* A map grown twice with different pads: the first slot holds another
\* value than the pad of the reserve that just created the last slot.
C11_Witness ==
    /\ op.name = "reserve"
    /\ Len(map) = as_index(op.key) + 1
    /\ Len(map) >= 3
    /\ map[Len(map)] = op.pad
    /\ map[Len(map) - 1] = op.pad
    /\ map[1] # op.pad

\* C12: an indexed read or write of a key k with has(k) false fails (a
\* panic) and neither returns a value nor grows the container, for IntMap
\* read and write and for IntMapBool read and set; and so does an access
\* made once the container has been cleared, also of a key reserved before.
C12_UnreservedAccessFails ==
    [][ /\ (op'.name \in {"index", "index_mut"} /\ ~IntMap_has(map, op'.key))
              => (status' = "panicked" /\ map' = map)
        /\ (op'.name \in {"bool_index", "bool_set"}
               /\ ~IntMapBool_has(bits, op'.key))
              => (status' = "panicked" /\ bits' = bits)
        /\ (op.name = "clear" /\ op'.name \in {"index", "index_mut"})
              => status' = "panicked"
        /\ (op.name = "bool_clear" /\ op'.name \in {"bool_index", "bool_set"})
              => status' = "panicked" ]_vars

\* ------------------------------------------------------------------- C13
\* items is the enumeration of m: one pair per slot, the i-th pair carrying
\* the key of index i-1 and the value read at that key.
IsEnumerationOf(items, m) ==
    /\ Len(items) = Len(m)
    /\ \A i \in 1..Len(items) :
          /\ as_index(items[i][1]) = i - 1
          /\ items[i][1] \in Keys
          /\ ~IntMap_index(m, items[i][1]).panic
          /\ items[i][2] = IntMap_index(m, items[i][1]).val
    /\ \A i, j \in 1..Len(items) :
          i < j => as_index(items[i][1]) < as_index(items[j][1])

\* C13: iter on a map of length n yields exactly the n pairs
\* (from_index(i), value at i), i = 0..n-1, in ascending index order, and
\* changes nothing; iter_mut yields the same pairs.  A call enumerates the map
\* as it is when the call is made, whatever happened before it, so two calls
\* with no mutation in between yield the same sequence.
C13_IterEnumeratesCurrentMap ==
    [][ /\ op'.name = "iter" =>
              /\ map' = map
              /\ status' = status
              /\ IsEnumerationOf(op'.items, map')
        /\ op'.name = "iter_mut" => IsEnumerationOf(op'.items, map)
        /\ (op.name = "iter" /\ op'.name = "iter") => op'.items = op.items
      ]_vars

\* An iteration over three slots that were filled by different calls.
C13_Witness ==
    /\ op.name = "iter"
    /\ Len(op.items) = 3
    /\ op.items[1][2] # op.items[3][2]
    /\ op.items[3][1] = from_index(2)

\* ------------------------------------------------------------------- C14
\* The number a string of decimal digits denotes (-1 if it is not one).
RECURSIVE ParseDecimal(_)
ParseDecimal(str) ==
    IF str = <<>>
    THEN -1
    ELSE LET last == str[Len(str)]
             d == IF \E i \in 1..10 : DigitChars[i] = last
                  THEN (CHOOSE i \in 1..10 : DigitChars[i] = last) - 1
                  ELSE -1
             front == SubSeq(str, 1, Len(str) - 1)
         IN  IF d = -1 THEN -1
             ELSE IF front = <<>> THEN d
             ELSE IF ParseDecimal(front) = -1 THEN -1
             ELSE 10 * ParseDecimal(front) + d

\* C14: Debug renders UNDEF as crUNDEF, SPECIAL as the different token
\* crSPECIAL, and every other handle as cr followed by the decimal value of
\* its raw integer; two handles render to the same text iff they are equal.
C14_DebugRendering ==
    op.name = "fmt" =>
        /\ op.cr = ClauseRef_UNDEF =>
              op.out = <<"c", "r", "U", "N", "D", "E", "F">>
        /\ op.cr = ClauseRef_SPECIAL =>
              op.out = <<"c", "r", "S", "P", "E", "C", "I", "A", "L">>
        /\ op.cr \notin {ClauseRef_UNDEF, ClauseRef_SPECIAL} =>
              /\ Len(op.out) >= 3
              /\ SubSeq(op.out, 1, 2) = <<"c", "r">>
              /\ ParseDecimal(SubSeq(op.out, 3, Len(op.out))) = op.cr
              /\ (Len(op.out) > 3 => op.out[3] # "0")
        /\ \A other \in RawCRefs :
              (ClauseRef_fmt(other) = op.out) <=> (other = op.cr)

\* SPECIAL has been rendered, and so has an ordinary handle of two digits
\* (the state holds one rendering; the other is the one next to it).
C14_Witness ==
    /\ op.name = "fmt"
    /\ op.cr = ClauseRef_SPECIAL
    /\ op.out[3] = "S"
    /\ Len(ClauseRef_fmt(op.cr - 1)) = 4

\* ------------------------------------------------------------------- C15
Max(a, b) == IF a >= b THEN a ELSE b

\* C15: insert(k, v, pad) and insert_default(k, v) do not fail; afterwards
\* has(k) holds and reading k gives v, every slot that existed before other
\* than k keeps its value, the slots newly created below k hold pad (the
\* default for insert_default), and the length is max(old length, index + 1).
C15_InsertFrame ==
    [][ op'.name \in {"insert", "insert_default"} =>
            LET slot == as_index(op'.key) + 1
            IN  /\ status' = "running"
                /\ IntMap_has(map', op'.key)
                /\ IntMap_index(map', op'.key) =
                      [panic |-> FALSE, val |-> op'.val]
                /\ Len(map') = Max(Len(map), slot)
                /\ \A j \in 1..Len(map) : j # slot => map'[j] = map[j]
                /\ \A j \in (Len(map) + 1)..Len(map') :
                      j # slot => (j < slot /\ map'[j] = PadOf(op'))
      ]_vars

\* An insert two slots past the end of a map holding a value that is neither
\* the inserted value nor the pad: one kept slot, one padded slot, one written.
C15_Witness ==
    /\ op.name = "insert"
    /\ as_index(op.key) = 2
    /\ Len(map) = 3
    /\ op.val # op.pad
    /\ map[3] = op.val
    /\ map[2] = op.pad
    /\ map[1] # op.val

\* ------------------------------------------------------------------- C16
\* C16: reserve(k, pad) and reserve_default(k) on an IntMap where has(k)
\* already holds change nothing: the length and every stored value stay, the
\* pad is ignored, and the call does not fail.  The same holds for
\* IntMapBool::reserve(k), and IntSet::insert of a key that is already a
\* member changes neither the membership bits nor the key list.
C16_ReserveOfCoveredKeyIsNoOp ==
    [][ /\ (op'.name \in {"reserve", "reserve_default"}
               /\ IntMap_has(map, op'.key)) =>
              (map' = map /\ status' = "running")
        /\ (op'.name = "bool_reserve" /\ IntMapBool_has(bits, op'.key)) =>
              (bits' = bits /\ status' = "running")
        /\ (op'.name = "set_insert" /\ IntSet_has(set, op'.key).val) =>
              (in_set' = in_set /\ xs' = xs /\ status' = "running")
      ]_vars

\* A reserve of a key below the end of the map, whose slot holds a value
\* other than the supplied pad: the call met a covered key and a written slot.
C16_Witness ==
    /\ op.name = "reserve"
    /\ Len(map) > as_index(op.key) + 1
    /\ map[as_index(op.key) + 1] # op.pad

\* ------------------------------------------------------------------- C17
\* C17: IntMapBool::insert(k) never fails; afterwards has(k) holds and bit k
\* reads true, every bit that existed before other than k keeps its value,
\* and every newly covered bit other than k reads false.  The condition of
\* the debug assertion in reserve holds after every reserve and insert, and
\* after every IntSet::insert, whatever capacity the allocator chose.
C17_BoolInsertNeverFails ==
    [][ /\ op'.name = "bool_insert" =>
              LET slot == as_index(op'.key) + 1
              IN  /\ status' = "running"
                  /\ IntMapBool_has(bits', op'.key)
                  /\ IntMapBool_index(bits', op'.key) =
                        [panic |-> FALSE, val |-> TRUE]
                  /\ Len(bits') = Max(Len(bits), slot)
                  /\ \A j \in 1..Len(bits) : j # slot => bits'[j] = bits[j]
                  /\ \A j \in (Len(bits) + 1)..Len(bits') :
                        j # slot => ~bits'[j]
        /\ op'.name \in {"bool_reserve", "bool_insert"} =>
              /\ status' = "running"
              /\ \A cap \in BitVec_capacities(bits') :
                    IntMapBool_reserve_assert(cap, op'.key)
        /\ op'.name = "set_insert" =>
              /\ status' = "running"
              /\ \A cap \in BitVec_capacities(in_set') :
                    IntMapBool_reserve_assert(cap, op'.key)
      ]_vars

\* An insert past the end of a bitset that held a true bit: one bit kept,
\* at least one bit newly covered and false, the inserted bit true.
C17_Witness ==
    /\ op.name = "bool_insert"
    /\ status = "running"
    /\ as_index(op.key) = 3
    /\ Len(bits) = 4
    /\ bits[1] /\ ~bits[2] /\ ~bits[3] /\ bits[4]

\* ------------------------------------------------------------------- C18
\* C18: values stored before a clear do not reappear.  For IntMap, after
\* clear() followed by reserve(k, pad) every slot 0..index(k) reads pad; for
\* IntMapBool, after clear() followed by reserve(k) every bit 0..index(k)
\* reads false.
C18_NoStaleValuesAfterClear ==
    [][ /\ (op.name = "clear" /\ op'.name = "reserve") =>
              \A i \in 0..as_index(op'.key) :
                  IntMap_index(map', from_index(i)) =
                      [panic |-> FALSE, val |-> op'.pad]
        /\ (op.name = "bool_clear" /\ op'.name = "bool_reserve") =>
              \A i \in 0..as_index(op'.key) :
                  IntMapBool_index(bits', from_index(i)) =
                      [panic |-> FALSE, val |-> FALSE]
      ]_vars

\* A reserve has rebuilt a map that had been emptied: a key reserved earlier
\* is no longer covered, and both slots of the new map hold the pad.
C18_Witness ==
    /\ op.name = "reserve"
    /\ as_index(op.key) = 1
    /\ Len(map) = 2
    /\ map[1] = op.pad /\ map[2] = op.pad
    /\ op.pad # DefaultVal
    /\ \E k \in reserved : ~IntMap_has(map, k)

\* ------------------------------------------------------------------- C19
\* parse is over: it has returned, or it has panicked.
Terminated == result # "none" \/ status = "panicked"

\* The reader position of the first byte at or after position q that is not
\* whitespace (the end of input if there is none).
FirstNonWhitespace(inp, q) ==
    CHOOSE j \in q..Len(inp) :
        /\ \A i \in (q + 1)..j : inp[i] \in Whitespace
        /\ j = Len(inp) \/ inp[j + 1] \notin Whitespace

\* An integer read from position q finds no digit: after whitespace and an
\* optional sign the input has ended or the next byte is not a digit.
IntMissingAt(inp, q) ==
    LET j == FirstNonWhitespace(inp, q)
        k == IF j < Len(inp) /\ inp[j + 1] \in {43, 45} THEN j + 1 ELSE j
    IN  k = Len(inp) \/ inp[k + 1] \notin Digits

\* inp holds clause text only (no header, no comment) and its last clause is
\* not terminated: the text ends, whitespace aside, with a byte that is not a
\* digit or with a run of digits that are not all 0.
UnterminatedClauseText(inp) ==
    /\ \A i \in 1..Len(inp) : inp[i] \notin {112, 99}
    /\ \E n \in 1..Len(inp) :
          /\ inp[n] \notin Whitespace
          /\ \A i \in (n + 1)..Len(inp) : inp[i] \in Whitespace
          /\ \/ inp[n] \notin Digits
             \/ \E i \in 1..n :
                   /\ inp[i] \in Digits \ {48}
                   /\ \A m \in i..n : inp[m] \in Digits

\* C19: parse returns the InvalidInput error whenever an integer is expected
\* and, after whitespace and an optional sign, the next byte is not a digit
\* or the input has ended; read_clause returns normally only on a 0, so a
\* clause that is not terminated by 0 before the end of input never lets
\* parse return Ok; and parse terminates: the reader never moves back or past
\* the end of input, and every iteration of parse's loop (and of
\* read_clause's loop) that does not end parse consumes at least one byte.
C19_ParserRejectsMalformed ==
    [][ op'.name \in {"parse", "read_clause"} =>
            /\ pos <= pos' /\ pos' <= Len(input)
            /\ \A i \in 1..Len(op'.calls) :
                  IntMissingAt(input, op'.calls[i]) => result' = parse_error
            /\ (at' = "parse" /\ ~Terminated') => pos' > op'.start
            /\ (at = "read_clause" /\ at' = "read_clause" /\ ~Terminated') =>
                  pos' > pos
            /\ (at = "read_clause" /\ at' = "parse") => op'.ints = <<0>>
            /\ result' = "Ok" =>
                  /\ pos' = Len(input)
                  /\ ~UnterminatedClauseText(input)
      ]_vars

====
